---- MODULE Spec2Model ----
(***************************************************************************)
(* A model of HashMap.hpp: the doubly-linked LinkedList, the growable      *)
(* Array, the string hash function and the separate-chaining HashMap with  *)
(* its rehash.                                                             *)
(*                                                                         *)
(* Memory is explicit.  List nodes live in `heap`, a function from the     *)
(* addresses of the live nodes to their fields; `delete` removes an        *)
(* address from its domain and `new` takes the next unused address         *)
(* (`nextId`), so that a pointer to a deleted node is never mistaken for a *)
(* live one.  An operation that dereferences a deleted node, or indexes an *)
(* Array's buffer outside its allocated slots, has undefined behaviour:    *)
(* the model records it in `ub` and says nothing about what follows: an    *)
(* operation that finds `ub` set leaves the state as it is.                *)
(*                                                                         *)
(* LinkedListIterator::operator++() and ArrayIterator::operator++() have   *)
(* no return statement: a call that reaches one of them has undefined      *)
(* behaviour.  Every operator that models code with such an increment      *)
(* takes the outcome `inc` of the increments of the call, one of           *)
(* MissingReturn: "advance", the one effect the body has (m_itr moves on,  *)
(* the value returned is whatever the register holds), which is what an    *)
(* unoptimised build executes; or "undefined", anything else, which is     *)
(* recorded in `ub`.  Every action takes either outcome.                   *)
(***************************************************************************)
EXTENDS Integers, Sequences, FiniteSets, TLC

VARIABLES
    heap,           \* live ListItem nodes: address -> [value, prev, next]
    nextId,         \* the address the next `new ListItem` returns
    ub,             \* TRUE once an operation had undefined behaviour
    m_buckets,      \* HashMap::m_buckets, an Array of LinkedList
    m_loadFactor,   \* HashMap::m_loadFactor, as a fraction [num, den]
    list,           \* a LinkedList<int> under test: [m_head, m_tail]
    copy,           \* a LinkedList<int> copy-constructed from it, once made
    array,          \* an Array<int> under test
    second,         \* a HashMap copy- or move-constructed from the map
    written,        \* history: key -> the value last stored under it
    pushed,         \* history: the values pushed, while only pushBack ran
    last            \* history: what the last call did

vars ==
    <<heap, nextId, ub, m_buckets, m_loadFactor, list, copy, array, second,
      written, pushed, last>>

\* ------------------------------------------------------------------ bounds

\* Spec: the keys key0 .. key<NumKeys-1> may be passed to get, in any order.
NumKeys == 3
\* SpecScenario: the keys key0 .. key<ScenarioKeys-1> are inserted in order.
ScenarioKeys == 13
\* SpecList: at most MaxNodes nodes are ever allocated for the list.
MaxNodes == 5
\* SpecCopy: at most MaxCopyNodes nodes are ever allocated for the list and
\* its copy together.
MaxCopyNodes == 4
\* SpecList: the values pushed are 0 .. MaxListVal.
MaxListVal == 1

\* SpecArray: an Array is constructed with a capacity of 0 .. MaxArrayCap,
\* and resize is called with 0 .. MaxArrayCap.
MaxArrayCap == 3
\* SpecArray: pushBack is called while size() < MaxArrayLen.
MaxArrayLen == 4

\* SpecTwo: the keys key0 .. key<NumTwoKeys-1> may be passed to get.
NumTwoKeys == 2

\* ------------------------------------------------------------ constants

\* nullptr
Null == 0
\* The default bucket count of HashMap and the default capacity of Array.
DefaultCapacity == 16
\* The seed of the string hash.
HashSeed == 5328

\* ------------------------------------------------------------------- hash

\* std::size_t is 64 bits wide; a value is held as four 16-bit limbs, least
\* significant first, so that no intermediate result leaves TLC's integers.
LimbBase == 2^16

ToLimbs(n) ==
    <<n % LimbBase, (n \div LimbBase) % LimbBase, 0, 0>>

\* a + b modulo 2^64
Add64(a, b) ==
    LET s1 == a[1] + b[1]
        s2 == a[2] + b[2] + (s1 \div LimbBase)
        s3 == a[3] + b[3] + (s2 \div LimbBase)
        s4 == a[4] + b[4] + (s3 \div LimbBase)
    IN  <<s1 % LimbBase, s2 % LimbBase, s3 % LimbBase, s4 % LimbBase>>

\* h << 5 modulo 2^64
Shl5(h) ==
    LET s1 == h[1] * 32
        s2 == h[2] * 32 + (s1 \div LimbBase)
        s3 == h[3] * 32 + (s2 \div LimbBase)
        s4 == h[4] * 32 + (s3 \div LimbBase)
    IN  <<s1 % LimbBase, s2 % LimbBase, s3 % LimbBase, s4 % LimbBase>>

\* h % n for a 64-bit h and a small n >= 1
Mod64(h, n) ==
    LET r4 == h[4] % n
        r3 == (r4 * LimbBase + h[3]) % n
        r2 == (r3 * LimbBase + h[2]) % n
    IN  (r2 * LimbBase + h[1]) % n

\* hash(const std::string&): h = ((h << 5) + h) + ch over the characters.
\* (The test of Len(h) has h computed at every step instead of at the end.)
RECURSIVE HashFrom(_, _, _)
HashFrom(h, str, i) ==
    IF Len(h) # 4 \/ i > Len(str) THEN h
    ELSE HashFrom(Add64(Add64(Shl5(h), h), ToLimbs(str[i])), str, i + 1)

hash(str) == HashFrom(ToLimbs(HashSeed), str, 1)

\* The keys of the tests: "key" + std::to_string(i), as character codes.
KeyStr(i) ==
    <<107, 101, 121>> \o
    (IF i < 10 THEN <<48 + i>> ELSE <<48 + (i \div 10), 48 + (i % 10)>>)

\* KeyVal(K k = K{}, const V v = V{}); V{} is modelled as 0.
DefaultValue == 0
KeyVal(k, v) == [key |-> k, value |-> v]

\* What the increments of one call do: see the head of the module.
MissingReturn == {"advance", "undefined"}

\* ------------------------------------------------------------- LinkedList

\* ListItem(const T &v)
ListItem(v) == [value |-> v, prev |-> Null, next |-> Null]

\* LinkedList(): m_head(nullptr), m_tail(nullptr)
EmptyList == [m_head |-> Null, m_tail |-> Null]

\* Memory as the operators pass it on.
Mem(h, n, u) == [heap |-> h, next |-> n, ub |-> u]

\* new ListItem<T>(val): the node is at address M.next afterwards.
NewItem(M, val) ==
    [M EXCEPT !.heap = (M.next :> ListItem(val)) @@ M.heap, !.next = M.next + 1]

Live(M, p) == p \in DOMAIN M.heap

\* delete i (@@ <<>> keeps the heap an explicit function)
Delete(M, i) ==
    [M EXCEPT !.heap = [a \in DOMAIN M.heap \ {i} |-> M.heap[a]] @@ <<>>]

Undefined(M) == [M EXCEPT !.ub = TRUE]

\* The nodes linked from p on, following next until nullptr, as the loops
\* of size() and clear() follow them; the walk stops at a deleted node.
RECURSIVE Walk(_, _)
Walk(h, p) ==
    IF p = Null \/ p \notin DOMAIN h THEN <<>>
    ELSE <<p>> \o Walk(h, h[p].next)

\* Whether that walk reaches nullptr without reading a deleted node.
RECURSIVE WalkOk(_, _)
WalkOk(h, p) ==
    IF p = Null THEN TRUE
    ELSE IF p \notin DOMAIN h THEN FALSE
    ELSE WalkOk(h, h[p].next)

Items(M, l) == Walk(M.heap, l.m_head)
ItemsOk(M, l) == WalkOk(M.heap, l.m_head)

\* The nodes of l, as a set.
ListNodes(M, l) == {Items(M, l)[j] : j \in 1..Len(Items(M, l))}

\* void clear(): while(i) { tmp = i->next; delete i; i = tmp; }
RECURSIVE DeleteFrom(_, _)
DeleteFrom(M, i) ==
    IF i = Null THEN M
    ELSE IF ~Live(M, i) THEN Undefined(M)
    ELSE DeleteFrom(Delete(M, i), M.heap[i].next)

LL_clear(M, l) ==
    IF l.m_head = Null THEN [M |-> M, l |-> l]
    ELSE [M |-> DeleteFrom(M, l.m_head), l |-> EmptyList]

\* void pushBack(const T &val)
LL_pushBack(M, l, val) ==
    IF l.m_head = Null
    THEN [M |-> NewItem(M, val), l |-> [m_head |-> M.next, m_tail |-> M.next]]
    ELSE IF ~Live(M, l.m_tail) THEN [M |-> Undefined(M), l |-> l]
    ELSE [M |-> [NewItem(M, val) EXCEPT !.heap[l.m_tail].next = M.next,
                                        !.heap[M.next].prev = l.m_tail],
          l |-> [l EXCEPT !.m_tail = M.next]]

\* void remove(const ListItem<T> *i): m_head and m_tail are not touched.
LL_removeItem(M, i) ==
    IF i = Null THEN M
    ELSE IF ~Live(M, i) THEN Undefined(M)
    ELSE LET Unlink(prev, next) ==
                 LET FixNext(M1) ==
                         IF next = Null THEN M1
                         ELSE IF ~Live(M1, next) THEN Undefined(M1)
                         ELSE [M1 EXCEPT !.heap[next].prev = prev]
                 IN  FixNext(IF prev = Null THEN M
                             ELSE IF ~Live(M, prev) THEN Undefined(M)
                             ELSE [M EXCEPT !.heap[prev].next = next])
         IN  Delete(Unlink(M.heap[i].prev, M.heap[i].next), i)

\* The first node of ids whose value is v, or Null.
RECURSIVE FirstWith(_, _, _, _)
FirstWith(h, ids, v, i) ==
    IF i > Len(ids) THEN Null
    ELSE IF h[ids[i]].value = v THEN ids[i]
    ELSE FirstWith(h, ids, v, i + 1)

\* LinkedListIterator<T> find(const T &v): it is Null for end().  The
\* range-for increments its iterator after every node that does not hold
\* v; ok says that the call has defined behaviour.
LL_find(M, l, v, inc) ==
    IF l.m_head = Null THEN [it |-> Null, ok |-> TRUE]
    ELSE LET Found(f) ==
                 [it |-> f,
                  ok |-> /\ f # Null \/ ItemsOk(M, l)
                         /\ f = l.m_head \/ inc = "advance"]
         IN  Found(FirstWith(M.heap, Items(M, l), v, 1))

\* std::size_t size() const
LL_size(M, l) ==
    IF l.m_head = Null THEN [n |-> 0, ok |-> TRUE]
    ELSE [n |-> Len(Items(M, l)), ok |-> ItemsOk(M, l)]

\* T &at(std::size_t n) const: the node whose value is referred to.  The
\* range-for increments its iterator n times, and the loop falls off the
\* end of the function when n >= size().
LL_at(M, l, n, inc) ==
    LET Nth(ids) ==
            IF n < Len(ids)
            THEN [it |-> ids[n + 1], ok |-> n = 0 \/ inc = "advance"]
            ELSE [it |-> Null, ok |-> FALSE]
    IN  Nth(Items(M, l))

\* void remove(const LinkedListIterator<T> &i): remove(*i).
LL_removeIt(M, it) == LL_removeItem(M, it)

\* void remove(const std::size_t n): find(at(n)), then remove(it).
LL_remove(M, l, n, inc) ==
    LET RemoveFound(f) ==
            IF ~f.ok THEN Undefined(M)
            ELSE IF f.it = Null THEN M
            ELSE LL_removeIt(M, f.it)
        FindValue(a) ==
            IF ~a.ok THEN Undefined(M)
            ELSE RemoveFound(LL_find(M, l, M.heap[a.it].value, inc))
    IN  FindValue(LL_at(M, l, n, inc))

\* What the uninitialised member m_head of a list under construction may
\* hold: nullptr, a pointer to no node, the address of a live node, or an
\* address at which a node is allocated later (by the constructor itself or
\* by a later pushBack), the highest of which is top.
Wild == -1
Uninitialised(M, top) == {Null, Wild} \cup DOMAIN M.heap \cup (M.next..top)

\* LinkedList(const LinkedList &other), loop: one new node per value of
\* vals from index j on, linked behind prev; tail is the last node made.
RECURSIVE CopyNodes(_, _, _, _)
CopyNodes(M, vals, j, prev) ==
    IF j > Len(vals) THEN [M |-> M, tail |-> prev]
    ELSE LET Linked(M1) ==
                 CopyNodes(IF prev = Null THEN M1
                           ELSE [M1 EXCEPT !.heap[prev].next = M.next],
                           vals, j + 1, M.next)
         IN  Linked([NewItem(M, vals[j]) EXCEPT !.heap[M.next].prev = prev])

\* LinkedList(const LinkedList &other).  m_head is read (if(!m_head))
\* before anything was assigned to it: it holds uninit.  The range-for
\* over other increments its iterator after every node.
LL_copy(M, other, uninit, inc) ==
    IF \/ ~ItemsOk(M, other)
       \/ other.m_head # Null /\ inc = "undefined"
    THEN [M |-> Undefined(M), l |-> EmptyList]
    ELSE LET Built(vals, c) ==
                 [M |-> c.M,
                  l |-> [m_head |-> IF uninit = Null /\ Len(vals) > 0
                                    THEN M.next ELSE uninit,
                         m_tail |-> c.tail]]
             Copied(vals) == Built(vals, CopyNodes(M, vals, 1, Null))
         IN  Copied([j \in 1..Len(Items(M, other)) |->
                        M.heap[Items(M, other)[j]].value])

\* for(const auto &it : l) over the whole list: the values it->value of the
\* nodes visited.  The iterator is incremented after every node.
LL_iterate(M, l, inc) ==
    IF ~ItemsOk(M, l) \/ (l.m_head # Null /\ inc = "undefined")
    THEN [vals |-> <<>>, ok |-> FALSE]
    ELSE LET Vals(ids) == [j \in 1..Len(ids) |-> M.heap[ids[j]].value]
         IN  [vals |-> Vals(Items(M, l)), ok |-> TRUE]

\* The implicit LinkedList::operator=(const LinkedList&): m_head and m_tail
\* are copied; the nodes the list held are neither copied nor deleted.
LL_assign(l, other) == [l EXCEPT !.m_head = other.m_head,
                                 !.m_tail = other.m_tail]

\* No copy of the list under test has been constructed.
NoCopy == [made |-> FALSE, l |-> EmptyList]

\* ------------------------------------------------------------------ Array

\* What a slot of new int[n] holds before it is assigned: no value that is
\* ever pushed.
Indeterminate == -1

\* new T[n]: n slots holding default-constructed elements.
NewBuffer(n, dflt) == SubSeq([i \in 1..n |-> dflt], 1, n)

\* Array(std::size_t capacity = 16).  m_array is the buffer, one element
\* per allocated slot; m_null says that the pointer is nullptr.
Array(capacity, dflt) ==
    [m_array |-> NewBuffer(capacity, dflt), m_null |-> FALSE,
     m_size |-> 0, m_capacity |-> capacity]

\* A lazy allocation that does not replace a capacity of 0 by the default.
Array_allocate_NoDefault(A, dflt) ==
    IF A.m_null THEN Array(A.m_capacity, dflt) ELSE A

\* pushBack, if(!m_array) { ... }: the buffer is allocated on first use.
Array_allocate(A, dflt) ==
    IF A.m_null
    THEN Array(IF A.m_capacity = 0 THEN DefaultCapacity ELSE A.m_capacity,
               dflt)
    ELSE A

\* A growth test that is true only once the size exceeds the capacity.
Array_grow_Late(A, dflt) ==
    IF A.m_size > A.m_capacity
    THEN [A |-> [m_array |-> SubSeq(A.m_array, 1, A.m_size)
                                \o NewBuffer(A.m_capacity * 2 - A.m_size,
                                             dflt),
                 m_null |-> FALSE, m_size |-> A.m_size,
                 m_capacity |-> A.m_capacity * 2],
          oob |-> FALSE, deleted |-> A.m_array]
    ELSE [A |-> A, oob |-> FALSE, deleted |-> <<>>]

\* pushBack, if(m_size==m_capacity) { ... }: the capacity doubles, the
\* elements are copied and the old buffer is released (deleted).
Array_grow(A, dflt) ==
    IF A.m_size = A.m_capacity
    THEN [A |-> [m_array |-> SubSeq(A.m_array, 1, A.m_size)
                                \o NewBuffer(A.m_capacity * 2 - A.m_size,
                                             dflt),
                 m_null |-> FALSE, m_size |-> A.m_size,
                 m_capacity |-> A.m_capacity * 2],
          oob |-> FALSE, deleted |-> A.m_array]
    ELSE [A |-> A, oob |-> FALSE, deleted |-> <<>>]

\* pushBack, m_array[m_size++] = element; oob: the slot written is outside
\* the buffer.
Array_store(A, element, dflt) ==
    IF A.m_size >= Len(A.m_array)
    THEN [A |-> A, oob |-> TRUE, deleted |-> <<>>]
    ELSE Array_grow([A EXCEPT !.m_array[A.m_size + 1] = element,
                              !.m_size = A.m_size + 1], dflt)

\* void pushBack(const T &element)
Array_pushBack(A, element, dflt) ==
    Array_store(Array_allocate(A, dflt), element, dflt)

\* void resize(std::size_t cap): for cap > 0 the new buffer is filled and
\* then dropped; m_array keeps pointing to the old one.
Array_resize(A, cap) ==
    IF cap = 0
    THEN [A |-> [m_array |-> <<>>, m_null |-> TRUE, m_size |-> 0,
                 m_capacity |-> 0],
          oob |-> FALSE, deleted |-> A.m_array]
    ELSE [A |-> [A EXCEPT !.m_capacity = cap],
          oob |-> (IF A.m_size > cap THEN cap ELSE A.m_size) > Len(A.m_array),
          deleted |-> <<>>]

\* void clear()
Array_clear(A) == [A EXCEPT !.m_size = 0]

\* Array(Array &&other): the new Array takes the members of other, and
\* other is left with no buffer, size 0 and capacity 0.  Nothing is
\* allocated or released.
Array_move(A) ==
    [made |-> A,
     source |-> [m_array |-> <<>>, m_null |-> TRUE, m_size |-> 0,
                 m_capacity |-> 0]]

\* ---------------------------------------------------------------- HashMap

\* The map as the operators pass it on: the memory M and m_buckets A.
MapState(M, A) == [M |-> M, A |-> A]

\* The loops over the buckets are evaluated by halving the range [lo, hi]:
\* the steps and their order are those of the loop in the code.
Mid(lo, hi) == (lo + hi) \div 2

\* ~LinkedList() on the elements lo .. hi of a buffer released by
\* delete [], last element first.
RECURSIVE DestroyLists(_, _, _, _)
DestroyLists(M, slots, lo, hi) ==
    IF M.ub \/ lo > hi THEN M
    ELSE IF lo = hi THEN LL_clear(M, slots[lo]).M
    ELSE LET Lower(M1) == DestroyLists(M1, slots, lo, Mid(lo, hi))
         IN  Lower(DestroyLists(M, slots, Mid(lo, hi) + 1, hi))

\* m_buckets.pushBack(LinkedList<KeyVal<K, V>>()): the element is assigned
\* member by member, and a growth destroys the lists of the old buffer.
Buckets_pushBack(S, element) ==
    LET Destroy(r) ==
            LET Result(M1) == MapState(IF r.oob THEN Undefined(M1) ELSE M1,
                                       r.A)
            IN  Result(DestroyLists(S.M, r.deleted, 1, Len(r.deleted)))
    IN  Destroy(Array_pushBack(S.A, element, EmptyList))

\* void initBuckets(std::size_t n)
RECURSIVE initBuckets(_, _)
initBuckets(S, n) ==
    IF S.M.ub \/ n = 0 THEN S
    ELSE IF n = 1 THEN Buckets_pushBack(S, EmptyList)
    ELSE LET Rest(S1) == initBuckets(S1, n - (n \div 2))
         IN  Rest(initBuckets(S, n \div 2))

\* HashMap(std::size_t capacity = 16, float loadFactor = 0.75f)
HashMap(capacity) ==
    initBuckets(MapState(Mem(<<>>, 1, FALSE), Array(capacity, EmptyList)),
                capacity)

\* std::size_t capacity() const
HM_capacity(A) == A.m_size

\* Whether every bucket can be walked without reading a deleted node.
MapReadable(M, A) == \A b \in 1..A.m_size : ItemsOk(M, A.m_array[b])

\* The sum of it.size() over the buckets lo .. hi.
RECURSIVE SumSizes(_, _, _, _)
SumSizes(M, A, lo, hi) ==
    IF lo > hi THEN 0
    ELSE IF lo = hi THEN LL_size(M, A.m_array[lo]).n
    ELSE SumSizes(M, A, lo, Mid(lo, hi)) + SumSizes(M, A, Mid(lo, hi) + 1, hi)

\* The number of entries in the buckets of S.
EntryCount(S) == SumSizes(S.M, S.A, 1, S.A.m_size)

\* std::size_t size() const: for(const auto &it : m_buckets) n+=it.size().
\* The range-for increments its ArrayIterator after every bucket.
HM_size(S, inc) ==
    [n |-> EntryCount(S),
     ok |-> /\ S.A.m_size = 0 \/ inc = "advance"
            /\ MapReadable(S.M, S.A)]

\* float(size())/capacity() >= m_loadFactor, for cap >= 1 and the load
\* factor num/den with den >= 1.  The load factors used are multiples of
\* 1/4 and sz, cap are small, so the float quotient compares with the load
\* factor as the exact one does.
LoadFactorReached(sz, cap, lf) == sz * lf.den >= lf.num * cap

\* std::size_t cap = capacity()*2
RehashCapacity(A) == HM_capacity(A) * 2

\* KeyVal<K, V>(tempMap[i].key, tempMap[i].value)
RehashEntry(kv) == KeyVal(kv.key, kv.value)

\* tempMap.pushBack(jt->value) for every node of one bucket
RECURSIVE PushAll(_, _, _, _)
PushAll(T, h, ids, j) ==
    IF j > Len(ids) THEN T
    ELSE PushAll(Array_pushBack(T, h[ids[j]].value,
                                KeyVal(<<>>, DefaultValue)).A,
                 h, ids, j + 1)

\* rehash, first loop: the buckets lo .. hi are copied to tempMap and
\* cleared.  Both range-for loops increment their iterators.
RECURSIVE Drain(_, _, _, _, _)
Drain(S, T, lo, hi, inc) ==
    IF S.M.ub \/ lo > hi THEN [S |-> S, tempMap |-> T]
    ELSE IF inc = "undefined"
    THEN [S |-> MapState(Undefined(S.M), S.A), tempMap |-> T]
    ELSE IF lo = hi
    THEN LET Cleared(c) ==
                 [S |-> MapState(c.M, [S.A EXCEPT !.m_array[lo] = c.l]),
                  tempMap |-> PushAll(T, S.M.heap,
                                      Items(S.M, S.A.m_array[lo]), 1)]
         IN  Cleared(LL_clear(S.M, S.A.m_array[lo]))
    ELSE LET Upper(d) == Drain(d.S, d.tempMap, Mid(lo, hi) + 1, hi, inc)
         IN  Upper(Drain(S, T, lo, Mid(lo, hi), inc))

\* The bucket index taken modulo the capacity of the Array of buckets.
BucketIndex_ArrayCapacity(S, k) == Mod64(hash(k), S.A.m_capacity)

\* The bucket of key k: hash(k) % capacity()
BucketIndex(S, k) == Mod64(hash(k), HM_capacity(S.A))

\* tempMap.size()
TempCount(T) == T.m_size

\* rehash, second loop: for(int i = 0; i < tempMap.size(); i++), here for
\* the elements lo .. hi of tempMap (counted from 1).
RECURSIVE Redistribute(_, _, _, _)
Redistribute(S, T, lo, hi) ==
    IF S.M.ub \/ lo > hi THEN S
    ELSE IF lo = hi
    THEN LET Pushed(h, p) ==
                 MapState(p.M, [S.A EXCEPT !.m_array[h + 1] = p.l])
             Into(h) ==
                 Pushed(h, LL_pushBack(S.M, S.A.m_array[h + 1],
                                       RehashEntry(T.m_array[lo])))
         IN  Into(BucketIndex(S, T.m_array[lo].key))
    ELSE LET Upper(S1) == Redistribute(S1, T, Mid(lo, hi) + 1, hi)
         IN  Upper(Redistribute(S, T, lo, Mid(lo, hi)))

\* rehash up to the second loop: the entries are moved to tempMap, the
\* Array is cleared and resized to twice the bucket count, and initBuckets
\* appends that many empty lists.
RehashBuckets(S, inc) ==
    LET Resized(d, r) ==
            [S |-> initBuckets(
                       MapState(IF r.oob THEN Undefined(d.S.M) ELSE d.S.M,
                                r.A),
                       r.A.m_capacity),
             tempMap |-> d.tempMap]
        Drained(d) ==
            Resized(d, Array_resize(Array_clear(d.S.A),
                                    RehashCapacity(d.S.A)))
    IN  Drained(Drain(S, Array(EntryCount(S), KeyVal(<<>>, DefaultValue)),
                      1, S.A.m_size, inc))

\* void rehash()
HM_rehash(S, inc) ==
    IF S.M.ub THEN S
    ELSE IF ~HM_size(S, inc).ok THEN MapState(Undefined(S.M), S.A)
    ELSE IF HM_size(S, inc).n = 0 THEN S
    ELSE LET Start(b) == Redistribute(b.S, b.tempMap, 1, TempCount(b.tempMap))
         IN  Start(RehashBuckets(S, inc))

\* The first node of ids whose key is k, or Null.
RECURSIVE FirstKey(_, _, _, _)
FirstKey(h, ids, k, i) ==
    IF i > Len(ids) THEN Null
    ELSE IF h[ids[i]].value.key = k THEN ids[i]
    ELSE FirstKey(h, ids, k, i + 1)

\* The bucket scan of get: the node holding key k, or Null.
HM_lookup(S, k) ==
    FirstKey(S.M.heap, Items(S.M, S.A.m_array[BucketIndex(S, k) + 1]), k, 1)

\* bucket[bucket.size()-1].value: the node the reference refers to.
InsertedRef(M, l, inc) == LL_at(M, l, LL_size(M, l).n - 1, inc)

\* V &get(const K &k).  ref is the node whose value the returned reference
\* refers to; inserted and rehashes count the pushBack and rehash calls of
\* this call and of the get calls it makes.  hash(k)%capacity() divides by
\* zero when there is no bucket; the scan increments its iterator after
\* every node that does not hold k.
RECURSIVE HM_get(_, _, _, _)
HM_get(S, lf, k, inc) ==
    LET Counted(r) == [r EXCEPT !.inserted = r.inserted + 1,
                                !.rehashes = r.rehashes + 1]
        Failed(S1, n) ==
            [S |-> MapState(Undefined(S1.M), S1.A), ref |-> Null,
             inserted |-> n, rehashes |-> 0]
        Returned(S1, a) ==
            IF ~a.ok THEN Failed(S1, 1)
            ELSE [S |-> S1, ref |-> a.it, inserted |-> 1, rehashes |-> 0]
        Sized(S1, l, sz) ==
            IF ~sz.ok THEN Failed(S1, 1)
            ELSE IF LoadFactorReached(sz.n, HM_capacity(S1.A), lf)
            THEN Counted(HM_get(HM_rehash(S1, inc), lf, k, inc))
            ELSE Returned(S1, InsertedRef(S1.M, l, inc))
        Check(S1, l) == Sized(S1, l, HM_size(S1, inc))
        Pushed(h, p) ==
            Check(MapState(p.M, [S.A EXCEPT !.m_array[h + 1] = p.l]), p.l)
        Scanned(h, l, f) ==
            IF \/ f = Null /\ ~ItemsOk(S.M, l)
               \/ l.m_head # Null /\ f # l.m_head /\ inc = "undefined"
            THEN Failed(S, 0)
            ELSE IF f # Null
            THEN [S |-> S, ref |-> f, inserted |-> 0, rehashes |-> 0]
            ELSE Pushed(h, LL_pushBack(S.M, l, KeyVal(k, DefaultValue)))
        Hashed(h) == Scanned(h, S.A.m_array[h + 1], HM_lookup(S, k))
    IN  IF S.M.ub
        THEN [S |-> S, ref |-> Null, inserted |-> 0, rehashes |-> 0]
        ELSE IF HM_capacity(S.A) = 0 THEN Failed(S, 0)
        ELSE Hashed(BucketIndex(S, k))

\* (*storageItr).begin() for the slot at offset i of m_array: the head of
\* the list there; ok says that the slot is inside the buffer.
SlotBegin(S, i) ==
    IF i < Len(S.A.m_array)
    THEN [it |-> S.A.m_array[i + 1].m_head, ok |-> TRUE]
    ELSE [it |-> Wild, ok |-> FALSE]

\* HashMap::begin(): HashMapIterator(m_buckets.begin(), m_buckets.end()).
\* m_storageItr and m_storageEnd are offsets from m_array; m_itr is the
\* node of (*storageItr).begin().
HM_begin(S) ==
    [m_storageItr |-> 0, m_itr |-> SlotBegin(S, 0).it,
     m_storageEnd |-> S.A.m_size, ok |-> SlotBegin(S, 0).ok]

\* HashMap::end(): HashMapIterator(m_buckets.end(), m_buckets.end()); its
\* m_itr is read from the slot after the last bucket.
HM_end(S) ==
    [m_storageItr |-> S.A.m_size, m_itr |-> SlotBegin(S, S.A.m_size).it,
     m_storageEnd |-> S.A.m_size, ok |-> SlotBegin(S, S.A.m_size).ok]

\* HashMapIterator::operator++(): m_itr++ runs the increment of the list
\* iterator.  At the end of the bucket, ++m_storageItr is compared with
\* m_storageEnd: the value compared is what the increment without return
\* statement leaves, which in the unoptimised build is never equal to
\* m_storageEnd, so that the begin() of the next slot is taken also when
\* the storage is exhausted.
HMI_next(S, it, inc) ==
    LET Taken(b) == [it EXCEPT !.m_storageItr = it.m_storageItr + 1,
                               !.m_itr = b.it, !.ok = b.ok]
        Advanced(n) ==
            IF n # Null THEN [it EXCEPT !.m_itr = n]
            ELSE Taken(SlotBegin(S, it.m_storageItr + 1))
    IN  IF inc = "undefined" \/ (it.m_itr # Null /\ ~Live(S.M, it.m_itr))
        THEN [it EXCEPT !.ok = FALSE]
        ELSE Advanced(IF it.m_itr # Null THEN S.M.heap[it.m_itr].next
                      ELSE Null)

\* for(auto &it : map): the pairs *it from it until it == e, where
\* HashMapIterator::operator!= compares m_itr alone.
RECURSIVE HMI_collect(_, _, _, _)
HMI_collect(S, it, e, inc) ==
    IF ~it.ok THEN [vals |-> <<>>, ok |-> FALSE]
    ELSE IF it.m_itr = e.m_itr THEN [vals |-> <<>>, ok |-> TRUE]
    ELSE IF ~Live(S.M, it.m_itr) THEN [vals |-> <<>>, ok |-> FALSE]
    ELSE LET Rest(r) == [vals |-> <<S.M.heap[it.m_itr].value>> \o r.vals,
                         ok |-> r.ok]
         IN  Rest(HMI_collect(S, HMI_next(S, it, inc), e, inc))

HM_iterate(S, inc) ==
    IF ~HM_end(S).ok THEN [vals |-> <<>>, ok |-> FALSE]
    ELSE HMI_collect(S, HM_begin(S), HM_end(S), inc)

\* Array(const Array &other): a buffer of other.m_capacity slots, to which
\* the first other.m_size elements are assigned.  oob: the copy reads or
\* writes outside a buffer.
Array_copy(A, dflt) ==
    IF A.m_size > A.m_capacity \/ A.m_size > Len(A.m_array)
    THEN [A |-> A, oob |-> TRUE]
    ELSE [A |-> [m_array |-> SubSeq(A.m_array, 1, A.m_size)
                                \o NewBuffer(A.m_capacity - A.m_size, dflt),
                 m_null |-> FALSE, m_size |-> A.m_size,
                 m_capacity |-> A.m_capacity],
          oob |-> FALSE]

\* HashMap(const HashMap &other): m_buckets(other.m_buckets).  The lists
\* are assigned by std::copy, member by member (LinkedList declares no
\* operator=): each list of the new map has the m_head and m_tail of the
\* list it was assigned from.
HM_copy(A) == Array_copy(A, EmptyList)

\* HashMap(HashMap &&other): m_buckets(other.m_buckets) copies, other being
\* an lvalue, and other.m_buckets.clear() sets the size of the source to 0.
HM_move(A) == [made |-> Array_copy(A, EmptyList), source |-> Array_clear(A)]

\* ~HashMap(): ~Array() runs delete [] m_array, which destroys the list in
\* every slot of the buffer.
HM_destroy(M, A) ==
    IF A.m_null THEN M ELSE DestroyLists(M, A.m_array, 1, Len(A.m_array))

\* No second map has been constructed; alive and sourceAlive say which of
\* the second map and the map it was made from have not been destroyed.
NoSecond ==
    [made |-> FALSE, m_buckets |-> Array(0, EmptyList), alive |-> FALSE,
     sourceAlive |-> TRUE]

\* ------------------------------------------------------- the map's state

\* The bucket counts a map is constructed with.
InitCapacities == {1, 2, 3}

\* The load factors a map is constructed with: 0, 0.25, 0.5, 0.75, 1.5.
LoadFactors ==
    {[num |-> 0, den |-> 1], [num |-> 1, den |-> 4], [num |-> 1, den |-> 2],
     [num |-> 3, den |-> 4], [num |-> 3, den |-> 2]}

Keys == {KeyStr(i) : i \in 0..(NumKeys - 1)}
\* The values map[k] = v writes: V{} and one other value.
Values == {DefaultValue, 1}

\* HashMap<std::string, int> map(c, lf);
Construct(c, lf) ==
    LET S == HashMap(c)
    IN  /\ heap = S.M.heap
        /\ nextId = S.M.next
        /\ ub = S.M.ub
        /\ m_buckets = S.A
        /\ m_loadFactor = lf
        /\ list = EmptyList
        /\ copy = NoCopy
        /\ second = NoSecond
        /\ array = Array(DefaultCapacity, Indeterminate)
        /\ written = <<>>
        /\ pushed = [vals |-> <<>>, only |-> TRUE]
        /\ last = [op |-> "new", key |-> <<>>, present |-> FALSE,
                   inserted |-> 0, rehashes |-> 0, size0 |-> 0, cap0 |-> c,
                   ref |-> Null, ret |-> DefaultValue]

\* One call of get(k) / operator[](k).  op "get" reads the returned
\* reference (map[k]), op "put" assigns v through it (map[k] = v); inc is
\* what the increments of the call do.
Call(op, k, v, inc) ==
    /\ ~ub
    /\ \E S \in {MapState(Mem(heap, nextId, ub), m_buckets)} :
       \E r \in {HM_get(S, m_loadFactor, k, inc)} :
       \E h1 \in {IF op = "put" /\ r.ref \in DOMAIN r.S.M.heap
                  THEN [r.S.M.heap EXCEPT ![r.ref].value.value = v]
                  ELSE r.S.M.heap} :
        /\ heap' = h1
        /\ nextId' = r.S.M.next
        /\ ub' = r.S.M.ub
        /\ m_buckets' = r.S.A
        /\ written' = IF op = "put" THEN (k :> v) @@ written
                      ELSE IF k \in DOMAIN written THEN written
                      ELSE (k :> DefaultValue) @@ written
        /\ last' = [op |-> op, key |-> k, present |-> HM_lookup(S, k) # Null,
                    inserted |-> r.inserted, rehashes |-> r.rehashes,
                    size0 |-> EntryCount(S), cap0 |-> HM_capacity(m_buckets),
                    ref |-> r.ref,
                    ret |-> IF r.ref \in DOMAIN h1 THEN h1[r.ref].value.value
                            ELSE DefaultValue]
        /\ UNCHANGED <<m_loadFactor, list, copy, array, second, pushed>>

\* int x = map[k];
Get == \E k \in Keys, inc \in MissingReturn :
           Call("get", k, DefaultValue, inc)

\* map[k] = v;
Put == \E k \in Keys, v \in Values, inc \in MissingReturn :
           Call("put", k, v, inc)

Init == \E c \in InitCapacities, lf \in LoadFactors : Construct(c, lf)

Next == Get \/ Put

Spec == Init /\ [][Next]_vars

\* The scenario of the specification: a map with the default 16 buckets
\* and load factor 0.75; map["key<i>"] = i + 1 for i = 0, 1, 2, ... in this
\* order, and reads of the keys inserted so far.
InitScenario == Construct(DefaultCapacity, [num |-> 3, den |-> 4])

ScenarioInsert ==
    /\ Cardinality(DOMAIN written) < ScenarioKeys
    /\ \E inc \in MissingReturn :
           Call("put", KeyStr(Cardinality(DOMAIN written)),
                Cardinality(DOMAIN written) + 1, inc)

ScenarioGet == \E k \in DOMAIN written, inc \in MissingReturn :
                   Call("get", k, DefaultValue, inc)

NextScenario == ScenarioInsert \/ ScenarioGet

SpecScenario == InitScenario /\ [][NextScenario]_vars

\* ------------------------------------------------------ the list's state

\* The memory and the values of the list under test.
ListMem == Mem(heap, nextId, ub)

\* The values of the nodes linked from m_head, following next as size()
\* does.
ValuesOf(M, l) ==
    LET Vals(ids) == [j \in 1..Len(ids) |-> M.heap[ids[j]].value]
    IN  Vals(Items(M, l))

\* LinkedList<int> list;
InitList ==
    /\ heap = <<>>
    /\ nextId = 1
    /\ ub = FALSE
    /\ list = EmptyList
    /\ copy = NoCopy
    /\ second = NoSecond
    /\ array = Array(DefaultCapacity, Indeterminate)
    /\ m_buckets = Array(0, EmptyList)
    /\ m_loadFactor = [num |-> 3, den |-> 4]
    /\ written = <<>>
    /\ pushed = [vals |-> <<>>, only |-> TRUE]
    /\ last = [op |-> "new", n |-> 0, before |-> <<>>, readable |-> TRUE,
               other |-> <<>>, otherOk |-> TRUE]

\* What a list call leaves behind: the memory M1 and the members l1.
ListCall(op, n, M1, l1) ==
    /\ heap' = M1.heap
    /\ nextId' = M1.next
    /\ ub' = M1.ub
    /\ list' = l1
    /\ last' = [op |-> op, n |-> n, before |-> ValuesOf(ListMem, list),
                readable |-> ItemsOk(ListMem, list),
                other |-> ValuesOf(ListMem, copy.l),
                otherOk |-> ItemsOk(ListMem, copy.l)]
    /\ UNCHANGED <<m_buckets, m_loadFactor, copy, array, second, written>>

\* list.pushBack(v);
ListPushBack ==
    \E v \in 0..MaxListVal :
        /\ ~ub
        /\ nextId <= MaxNodes
        /\ \E r \in {LL_pushBack(ListMem, list, v)} :
            /\ ListCall("pushBack", v, r.M, r.l)
            /\ pushed' = IF pushed.only
                         THEN [pushed EXCEPT !.vals = Append(pushed.vals, v)]
                         ELSE pushed

\* list.remove(n);
ListRemove ==
    \E n \in 0..(MaxNodes - 1), inc \in MissingReturn :
        /\ ~ub
        /\ \E M1 \in {LL_remove(ListMem, list, n, inc)} :
            /\ ListCall("remove", n, M1, list)
            /\ pushed' = [vals |-> <<>>, only |-> FALSE]

\* list.remove(i); for a pointer i to a node of the list, or nullptr
ListRemoveItem ==
    \E i \in ListNodes(ListMem, list) \cup {Null} :
        /\ ~ub
        /\ \E M1 \in {LL_removeItem(ListMem, i)} :
            /\ ListCall("removeItem", i, M1, list)
            /\ pushed' = [vals |-> <<>>, only |-> FALSE]

\* list.remove(list.find(v));
ListRemoveIt ==
    \E v \in 0..MaxListVal, inc \in MissingReturn :
        /\ ~ub
        /\ \E f \in {LL_find(ListMem, list, v, inc)} :
           \E M1 \in {IF f.ok THEN LL_removeIt(ListMem, f.it)
                       ELSE Undefined(ListMem)} :
            /\ ListCall("removeIt", v, M1, list)
            /\ pushed' = [vals |-> <<>>, only |-> FALSE]

\* list.clear();
ListClear ==
    /\ ~ub
    /\ \E r \in {LL_clear(ListMem, list)} :
        /\ ListCall("clear", 0, r.M, r.l)
        /\ pushed' = [vals |-> <<>>, only |-> ~r.M.ub]

NextList ==
    ListPushBack \/ ListRemove \/ ListRemoveItem \/ ListRemoveIt \/ ListClear

SpecList == InitList /\ [][NextList]_vars

\* What a call on the copy leaves behind: the memory M1 and the copy's
\* members l1.  before is the copy, other the list it was copied from.
CopyCall(op, n, M1, l1) ==
    /\ heap' = M1.heap
    /\ nextId' = M1.next
    /\ ub' = M1.ub
    /\ copy' = [made |-> TRUE, l |-> l1]
    /\ last' = [op |-> op, n |-> n, before |-> ValuesOf(ListMem, copy.l),
                readable |-> ItemsOk(ListMem, copy.l),
                other |-> ValuesOf(ListMem, list),
                otherOk |-> ItemsOk(ListMem, list)]
    /\ UNCHANGED <<m_buckets, m_loadFactor, list, array, second, written,
                 pushed>>

\* LinkedList<int> copy(list);
ListCopy ==
    \E uninit \in Uninitialised(ListMem, MaxCopyNodes),
       inc \in MissingReturn :
        /\ ~ub
        /\ ~copy.made
        /\ \E r \in {LL_copy(ListMem, list, uninit, inc)} :
               CopyCall("copy", 0, r.M, r.l)

\* copy.pushBack(v);
CopyPushBack ==
    \E v \in 0..MaxListVal :
        /\ ~ub
        /\ copy.made
        /\ nextId <= MaxNodes
        /\ \E r \in {LL_pushBack(ListMem, copy.l, v)} :
               CopyCall("copyPushBack", v, r.M, r.l)

\* copy.remove(n);
CopyRemove ==
    \E n \in 0..(MaxNodes - 1), inc \in MissingReturn :
        /\ ~ub
        /\ copy.made
        /\ \E M1 \in {LL_remove(ListMem, copy.l, n, inc)} :
               CopyCall("copyRemove", n, M1, copy.l)

\* copy.clear();
CopyClear ==
    /\ ~ub
    /\ copy.made
    /\ \E r \in {LL_clear(ListMem, copy.l)} :
           CopyCall("copyClear", 0, r.M, r.l)

\* copy = list;
CopyAssign ==
    /\ ~ub
    /\ copy.made
    /\ CopyCall("copyAssign", 0, ListMem, LL_assign(copy.l, list))

\* list = copy;
ListAssign ==
    /\ ~ub
    /\ copy.made
    /\ ListCall("assign", 0, ListMem, LL_assign(list, copy.l))
    /\ pushed' = [vals |-> <<>>, only |-> FALSE]

NextCopy ==
    \/ ListPushBack \/ ListRemove \/ ListRemoveItem \/ ListRemoveIt \/ ListClear
    \/ ListCopy \/ CopyPushBack \/ CopyRemove \/ CopyClear
    \/ CopyAssign \/ ListAssign

SpecCopy == InitList /\ [][NextCopy /\ nextId' <= MaxCopyNodes + 1]_vars

\* ----------------------------------------------------- the array's state

\* The values pushed into the array.
ArrayValues == {0, 1}

\* Array<int> array(c);  pushed.vals are the values pushed while nothing
\* but pushBack has been called (pushed.only), pushed.cap is c.
InitArray ==
    \E c \in 0..MaxArrayCap :
        /\ array = Array(c, Indeterminate)
        /\ pushed = [vals |-> <<>>, only |-> TRUE, cap |-> c]
        /\ last = [op |-> "new", n |-> c, before |-> Array(c, Indeterminate)]
        /\ heap = <<>>
        /\ nextId = 1
        /\ ub = FALSE
        /\ list = EmptyList
        /\ copy = NoCopy
        /\ second = NoSecond
        /\ m_buckets = Array(0, EmptyList)
        /\ m_loadFactor = [num |-> 3, den |-> 4]
        /\ written = <<>>

\* What an array call leaves behind: r.A, and undefined behaviour if it
\* went outside the buffer (r.oob).
ArrayCall(op, n, r) ==
    /\ array' = r.A
    /\ ub' = r.oob
    /\ last' = [op |-> op, n |-> n, before |-> array]
    /\ UNCHANGED <<heap, nextId, m_buckets, m_loadFactor, list, copy, second,
                 written>>

\* array.pushBack(v);
ArrayPushBack ==
    \E v \in ArrayValues :
        /\ ~ub
        /\ array.m_size < MaxArrayLen
        /\ ArrayCall("pushBack", v, Array_pushBack(array, v, Indeterminate))
        /\ pushed' = IF pushed.only
                     THEN [pushed EXCEPT !.vals = Append(pushed.vals, v)]
                     ELSE pushed

\* array.clear();
ArrayClear ==
    /\ ~ub
    /\ ArrayCall("clear", 0, [A |-> Array_clear(array), oob |-> FALSE])
    /\ pushed' = [pushed EXCEPT !.vals = <<>>, !.only = FALSE]

\* array.resize(cap);
ArrayResize ==
    \E cap \in 0..MaxArrayCap :
        /\ ~ub
        /\ ArrayCall("resize", cap, Array_resize(array, cap))
        /\ pushed' = [pushed EXCEPT !.vals = <<>>, !.only = FALSE]

\* Array<int> b(std::move(array));
ArrayMove ==
    /\ ~ub
    /\ ArrayCall("move", 0, [A |-> Array_move(array).source, oob |-> FALSE])
    /\ pushed' = [pushed EXCEPT !.vals = <<>>, !.only = FALSE]

\* Array<int> b(array);
ArrayCopy ==
    /\ ~ub
    /\ ArrayCall("copy", 0, [A |-> array,
                             oob |-> Array_copy(array, Indeterminate).oob])
    /\ UNCHANGED pushed

NextArray ==
    ArrayPushBack \/ ArrayClear \/ ArrayResize \/ ArrayMove \/ ArrayCopy

SpecArray == InitArray /\ [][NextArray]_vars

\* ------------------------------------------------------ two maps' state

\* The entries of the map with buckets A, bucket by bucket.
MapEntries(M, A) == [b \in 1..A.m_size |-> ValuesOf(M, A.m_array[b])]

\* The first map is constructed with 1 or 2 buckets and a load factor of
\* 0.75 or 1.5, and the keys passed to the two maps are key0 and key1.
InitTwo ==
    \E c \in {1, 2}, lf \in {[num |-> 3, den |-> 4], [num |-> 3, den |-> 2]} :
        Construct(c, lf)

TwoKeys == {KeyStr(i) : i \in 0..(NumTwoKeys - 1)}

\* The buckets of the map named who, and of the other one.
BucketsOf(who) == IF who = "source" THEN m_buckets ELSE second.m_buckets
AliveOf(who) == IF who = "source" THEN second.sourceAlive ELSE second.alive
OtherOf(who) == IF who = "source" THEN "second" ELSE "source"

\* What a call on the map who leaves in `last`: the entries of the other
\* map before the call.
TwoLast(op, who, k) ==
    [op |-> op, who |-> who, key |-> k,
     before |-> MapEntries(ListMem, BucketsOf(OtherOf(who))),
     readable |-> MapReadable(ListMem, BucketsOf(OtherOf(who))),
     otherAlive |-> second.made /\ AliveOf(OtherOf(who))]

\* One call of get(k) / operator[](k) on the map who; inc is what the
\* increments of the call do.
TwoCall(who, op, k, v, inc) ==
    /\ ~ub
    /\ AliveOf(who)
    /\ who = "second" => second.made
    /\ last' = TwoLast(op, who, k)
    /\ \E r \in {HM_get(MapState(ListMem, BucketsOf(who)), m_loadFactor, k,
                         inc)} :
        /\ heap' = IF op = "put" /\ r.ref \in DOMAIN r.S.M.heap
                   THEN [r.S.M.heap EXCEPT ![r.ref].value.value = v]
                   ELSE r.S.M.heap
        /\ nextId' = r.S.M.next
        /\ ub' = r.S.M.ub
        /\ m_buckets' = IF who = "source" THEN r.S.A ELSE m_buckets
        /\ second' = IF who = "second"
                      THEN [second EXCEPT !.m_buckets = r.S.A]
                      ELSE second
    /\ UNCHANGED <<m_loadFactor, list, copy, array, written, pushed>>

\* int x = a[k];  a[k] = v;  int y = b[k];  b[k] = v;
TwoGet == \E who \in {"source", "second"}, k \in TwoKeys,
             inc \in MissingReturn :
              TwoCall(who, "get", k, DefaultValue, inc)
TwoPut == \E who \in {"source", "second"}, k \in TwoKeys, v \in Values,
             inc \in MissingReturn :
              TwoCall(who, "put", k, v, inc)

\* What constructing the second map from the first leaves behind.
Constructed(op, made, source) ==
    /\ ~ub
    /\ ~second.made
    /\ second.sourceAlive
    /\ second' = [made |-> TRUE, m_buckets |-> made.A, alive |-> TRUE,
                  sourceAlive |-> TRUE]
    /\ m_buckets' = source
    /\ ub' = made.oob
    /\ last' = [op |-> op, who |-> "second", key |-> <<>>,
                before |-> MapEntries(ListMem, m_buckets),
                readable |-> MapReadable(ListMem, m_buckets),
                otherAlive |-> FALSE]
    /\ UNCHANGED <<heap, nextId, m_loadFactor, list, copy, array, written,
                   pushed>>

\* HashMap<std::string, int> b(a);
MapCopy == Constructed("copy", HM_copy(m_buckets), m_buckets)

\* HashMap<std::string, int> b(std::move(a));
MapMove ==
    \E r \in {HM_move(m_buckets)} : Constructed("move", r.made, r.source)

\* The map who is destroyed (it goes out of scope, or is deleted).
MapDestroy ==
    \E who \in {"source", "second"} :
        /\ ~ub
        /\ second.made
        /\ AliveOf(who)
        /\ last' = TwoLast("destroy", who, <<>>)
        /\ \E M1 \in {HM_destroy(ListMem, BucketsOf(who))} :
            /\ heap' = M1.heap
            /\ ub' = M1.ub
        /\ second' = IF who = "source"
                      THEN [second EXCEPT !.sourceAlive = FALSE]
                      ELSE [second EXCEPT !.alive = FALSE]
        /\ UNCHANGED <<nextId, m_buckets, m_loadFactor, list, copy, array,
                       written, pushed>>

NextTwo == TwoGet \/ TwoPut \/ MapCopy \/ MapMove \/ MapDestroy

SpecTwo == InitTwo /\ [][NextTwo]_vars

\* ------------------------------------------------------------ the claims

\* The map as the claims read it.
Now == MapState(Mem(heap, nextId, ub), m_buckets)

\* The keys of all entries, bucket 0 first and in list order.
RECURSIVE KeysFrom(_, _, _)
KeysFrom(S, lo, hi) ==
    IF lo > hi THEN <<>>
    ELSE IF lo = hi
    THEN LET KeysOf(ids) == [j \in 1..Len(ids) |-> S.M.heap[ids[j]].value.key]
         IN  KeysOf(Items(S.M, S.A.m_array[lo]))
    ELSE KeysFrom(S, lo, Mid(lo, hi)) \o KeysFrom(S, Mid(lo, hi) + 1, hi)

AllKeys == KeysFrom(Now, 1, m_buckets.m_size)

IsCall == last.op \in {"get", "put"}

\* The value a read map[k] of a stored key returns.
ReadOf(k) == heap[HM_lookup(Now, k)].value.value

\* size() returns n, whatever its increments do.
SizeIs(n) ==
    \A inc \in MissingReturn : HM_size(Now, inc) = [n |-> n, ok |-> TRUE]

\* C1 as claimed: after any sequence of writes map[k] = v and reads, with
\* the rehashes they trigger, every call made was well defined, every key
\* passed so far is found by the bucket scan of get and holds the value last
\* written to it (the default value if it was only read), and the call just
\* made returned that value.
C1_ReadReturnsLastWritten ==
    /\ ~ub
    /\ \A k \in DOMAIN written :
           HM_lookup(Now, k) # Null /\ ReadOf(k) = written[k]
    /\ IsCall => last.ret = written[last.key]

\* C2 as claimed: get(k) of a key that is not in the map returns a
\* reference to the entry now stored under k, whose value is
\* default-constructed, and size() is one more than before the call, with
\* or without a rehash.
C2_MissingKeyInsertsDefault ==
    (IsCall /\ ~last.present) =>
        /\ ~ub
        /\ last.ref = HM_lookup(Now, last.key)
        /\ last.ref # Null
        /\ heap[last.ref].value.key = last.key
        /\ last.op = "get" => last.ret = DefaultValue
        /\ SizeIs(last.size0 + 1)

\* C3 as claimed: no key occurs in two entries, and the entries are exactly
\* the distinct keys passed to get so far: size() is their number.
C3_NoDuplicateKeys ==
    LET ks == AllKeys
    IN  /\ \A i, j \in 1..Len(ks) : ks[i] = ks[j] => i = j
        /\ {ks[i] : i \in 1..Len(ks)} = DOMAIN written
        /\ SizeIs(Cardinality(DOMAIN written))

\* C4 as claimed: a get call runs rehash exactly when the key was absent
\* and (size()+1)/capacity() >= loadFactor, size() and capacity() taken
\* before the call; with 16 buckets and load factor 0.75 the capacity is 16
\* while fewer than 12 keys are stored, and the insert of the 12th key
\* rehashes once and leaves capacity() == 32 and size() == 12, every key
\* still holding its value.
C4_RehashAtThreshold ==
    /\ IsCall =>
           /\ ~ub
           /\ last.rehashes \in {0, 1}
           /\ last.rehashes = 1 <=>
                  /\ ~last.present
                  /\ (last.size0 + 1) * m_loadFactor.den
                         >= m_loadFactor.num * last.cap0
    /\ EntryCount(Now) < 12 => HM_capacity(m_buckets) = 16
    /\ (IsCall /\ ~last.present /\ last.size0 = 11) =>
           /\ last.rehashes = 1
           /\ HM_capacity(m_buckets) = 32
           /\ SizeIs(12)
           /\ \A i \in 0..11 : ReadOf(KeyStr(i)) = i + 1

\* C5 as claimed: whenever a get call has returned on a map with a load
\* factor > 0, the call was well defined and size()/capacity() <
\* loadFactor.
C5_RatioBelowLoadFactor ==
    (IsCall /\ m_loadFactor.num > 0) =>
        /\ ~ub
        /\ EntryCount(Now) * m_loadFactor.den
               < m_loadFactor.num * HM_capacity(m_buckets)

\* C6 as claimed: after construction capacity() is the bucket count asked
\* for, every bucket is empty and size() == 0; a call that did not rehash
\* leaves capacity() as it was, and a rehash exactly doubles it.
C6_CapacityOnlyDoubles ==
    /\ last.op = "new" =>
           /\ HM_capacity(m_buckets) = last.cap0
           /\ SizeIs(0)
           /\ \A i \in 1..m_buckets.m_size : m_buckets.m_array[i] = EmptyList
    /\ IsCall => ~ub
    /\ (IsCall /\ last.rehashes = 0) => HM_capacity(m_buckets) = last.cap0
    /\ (IsCall /\ last.rehashes # 0) =>
           HM_capacity(m_buckets) = 2 * last.cap0
    /\ HM_capacity(m_buckets) >= last.cap0

\* The entries of all buckets, bucket 0 first and in list order.
RECURSIVE EntriesFrom(_, _, _)
EntriesFrom(S, lo, hi) ==
    IF lo > hi THEN <<>>
    ELSE IF lo = hi THEN ValuesOf(S.M, S.A.m_array[lo])
    ELSE EntriesFrom(S, lo, Mid(lo, hi)) \o EntriesFrom(S, Mid(lo, hi) + 1, hi)

\* C7 as claimed: iterating the map from begin() until the iterator equals
\* end() yields every stored key-value pair exactly once, bucket 0 to N-1
\* and in list order inside a bucket, whichever buckets are empty.
C7_IterationYieldsAll ==
    \A inc \in MissingReturn :
        HM_iterate(Now, inc)
            = [vals |-> EntriesFrom(Now, 1, m_buckets.m_size), ok |-> TRUE]

\* The nodes from p on, following prev until nullptr or a deleted node.
RECURSIVE WalkBack(_, _)
WalkBack(h, p) ==
    IF p = Null \/ p \notin DOMAIN h THEN <<>>
    ELSE <<p>> \o WalkBack(h, h[p].prev)

Reverse(s) == [j \in 1..Len(s) |-> s[Len(s) + 1 - j]]

\* C8 as claimed: after any sequence of pushBack, remove and clear calls,
\* m_head is null iff m_tail is null iff size() == 0; following next from
\* m_head visits every node and ends at m_tail, whose next is null; and
\* following prev from m_tail ends at m_head, whose prev is null.
C8_ListWellFormed ==
    ~ub =>
        LET ids == Items(ListMem, list)
        IN  /\ (list.m_head = Null) <=> (list.m_tail = Null)
            /\ (list.m_head = Null) <=> (Len(ids) = 0)
            /\ list.m_head # Null =>
                   /\ ItemsOk(ListMem, list)
                   /\ {ids[j] : j \in 1..Len(ids)} = DOMAIN heap
                   /\ ids[Len(ids)] = list.m_tail
                   /\ WalkBack(heap, list.m_tail) = Reverse(ids)

\* s without its element at index n (from 0).
WithoutIndex(s, n) ==
    [j \in 1..(Len(s) - 1) |-> IF j <= n THEN s[j] ELSE s[j + 1]]

\* C9 as claimed, for the calls whose result can be read without undefined
\* behaviour: remove(n) with n < size() removes exactly the element at
\* index n, the remaining elements keeping their values and order.
C9_RemoveRemovesIndex ==
    (/\ last.op = "remove" /\ last.readable /\ last.n < Len(last.before)
     /\ ~ub /\ ItemsOk(ListMem, list)) =>
        ValuesOf(ListMem, list) = WithoutIndex(last.before, last.n)

\* C10 as claimed: while only pushBack has been called on an empty list (a
\* new one or one just cleared), size() is the number N of calls, at(i) is
\* the i-th pushed value for every i < N, and the iteration from begin()
\* to end() yields the pushed values in insertion order, whatever the
\* increments do.
C10_PushBackAppends ==
    pushed.only =>
        /\ ~ub
        /\ LL_size(ListMem, list) = [n |-> Len(pushed.vals), ok |-> TRUE]
        /\ \A i \in 0..(Len(pushed.vals) - 1), inc \in MissingReturn :
               \A a \in {LL_at(ListMem, list, i, inc)} :
                   a.ok /\ heap[a.it].value = pushed.vals[i + 1]
        /\ \A inc \in MissingReturn :
               LL_iterate(ListMem, list, inc)
                   = [vals |-> pushed.vals, ok |-> TRUE]

\* The elements pushed into the array are at their indices.
ArrayHoldsPushed ==
    /\ array.m_size = Len(pushed.vals)
    /\ Len(array.m_array) >= array.m_size
    /\ \A i \in 1..Len(pushed.vals) : array.m_array[i] = pushed.vals[i]

\* C12 as claimed: while only pushBack has been called on a new Array of
\* capacity C >= 1, every element is read back at the index at which it was
\* pushed, across every growth, and after C + 1 pushes capacity() == 2C
\* and size() == C + 1.
C12_PushKeepsElements ==
    (pushed.only /\ pushed.cap >= 1) =>
        /\ ~ub
        /\ ArrayHoldsPushed
        /\ Len(pushed.vals) = pushed.cap + 1 =>
               array.m_capacity = 2 * pushed.cap

\* C13 as claimed: after exactly C pushes into a new Array of capacity
\* C >= 1, capacity() is still C, and after the (C+1)-th it is 2C.
C13_GrowsOnlyWhenExceeded ==
    (pushed.only /\ pushed.cap >= 1) =>
        /\ Len(pushed.vals) = pushed.cap => array.m_capacity = pushed.cap
        /\ Len(pushed.vals) = pushed.cap + 1 =>
               array.m_capacity = 2 * pushed.cap

\* C14 as claimed: 0 <= size() <= capacity() after construction and after
\* any sequence of pushBack, clear and resize calls.
C14_SizeWithinCapacity ==
    0 <= array.m_size /\ array.m_size <= array.m_capacity

\* The smaller of two numbers.
Min(a, b) == IF a < b THEN a ELSE b

\* C15 as claimed: after resize(n) with n > 0, capacity() == n, the buffer
\* the array uses has n slots, and the elements below min(size(), n) are
\* unchanged.
C15_ResizeReallocates ==
    (last.op = "resize" /\ last.n > 0) =>
        /\ array.m_capacity = last.n
        /\ ~array.m_null /\ Len(array.m_array) = last.n
        /\ \A i \in 1..Min(last.before.m_size, last.n) :
               array.m_array[i] = last.before.m_array[i]

\* C16: resize(0) leaves capacity() == 0, size() == 0 and data() == nullptr,
\* and the pushBack that follows allocates 16 slots and leaves
\* capacity() == 16, size() == 1 and the pushed element at index 0.
C16_ResizeZeroReleases ==
    /\ (last.op = "resize" /\ last.n = 0) =>
           /\ array.m_capacity = 0 /\ array.m_size = 0
           /\ array.m_null /\ array.m_array = <<>>
           /\ ~ub
    /\ (/\ last.op = "pushBack"
        /\ last.before.m_null /\ last.before.m_capacity = 0) =>
           /\ ~ub
           /\ ~array.m_null /\ Len(array.m_array) = 16
           /\ array.m_capacity = 16 /\ array.m_size = 1
           /\ array.m_array[1] = last.n

\* A pushBack of 1 right after resize(0) released an array constructed
\* with a capacity >= 1.
C16_Witness ==
    /\ last.op = "pushBack" /\ last.n = 1
    /\ last.before.m_null /\ last.before.m_capacity = 0
    /\ pushed.cap >= 1 /\ ~pushed.only
    /\ array.m_size = 1

\* C11 as claimed, for the LinkedList: a clear() in any state the list's
\* operations reach is well defined and leaves size() == 0, and a second
\* clear() right after it changes nothing.
C11_ClearEmpties ==
    last.op = "clear" =>
        /\ ~ub
        /\ LL_size(ListMem, list) = [n |-> 0, ok |-> TRUE]
        /\ LL_clear(ListMem, list) = [M |-> ListMem, l |-> list]

\* The nodes of l.
NodesOf(l) == {Items(ListMem, l)[j] : j \in 1..Len(Items(ListMem, l))}

\* C17 as claimed: a list copy-constructed from any list holds the same
\* values in the same order in nodes of its own, with m_head and m_tail on
\* its first and last node (both null for an empty source); and a later
\* pushBack, remove or clear on one of the two lists leaves the values of
\* the other as they were.
C17_CopyIsDeep ==
    copy.made =>
        /\ last.op = "copy" =>
               /\ ~ub
               /\ ItemsOk(ListMem, copy.l)
               /\ ValuesOf(ListMem, copy.l) = ValuesOf(ListMem, list)
               /\ NodesOf(copy.l) \cap NodesOf(list) = {}
               /\ (copy.l.m_head = Null) <=> (copy.l.m_tail = Null)
               /\ list.m_head = Null => copy.l = EmptyList
               /\ copy.l.m_head # Null =>
                      Items(ListMem, copy.l)[Len(Items(ListMem, copy.l))]
                          = copy.l.m_tail
        /\ (last.op \in {"pushBack", "remove", "clear"} /\ last.otherOk) =>
               /\ ItemsOk(ListMem, copy.l)
               /\ ValuesOf(ListMem, copy.l) = last.other
        /\ (/\ last.op \in {"copyPushBack", "copyRemove", "copyClear"}
            /\ last.otherOk) =>
               /\ ItemsOk(ListMem, list)
               /\ ValuesOf(ListMem, list) = last.other

\* C18 as claimed: a get(k) / map[k] of a key that is in the map is well
\* defined, inserts nothing and does not rehash, whatever size()/capacity()
\* is; it returns the node that holds k, and leaves the buckets, the nodes
\* and every other entry as they were (the entry of k changes only by a
\* write through the reference).
C18_PresentKeyUntouched ==
    [][(last'.op \in {"get", "put"} /\ last'.key \in DOMAIN written) =>
          /\ ~ub'
          /\ last'.rehashes = 0 /\ last'.inserted = 0
          /\ m_buckets' = m_buckets
          /\ nextId' = nextId
          /\ DOMAIN heap' = DOMAIN heap
          /\ last'.ref \in DOMAIN heap
          /\ heap[last'.ref].value.key = last'.key
          /\ \A a \in DOMAIN heap : a # last'.ref => heap'[a] = heap[a]
          /\ heap'[last'.ref] =
                 IF last'.op = "put"
                 THEN [heap[last'.ref] EXCEPT !.value.value = written'[last'.key]]
                 ELSE heap[last'.ref]
          /\ last'.ret = heap'[last'.ref].value.value]_vars

\* The nodes of bucket number b (from 0).
BucketNodes(b) == NodesOf(m_buckets.m_array[b + 1])

\* C19: in every state between calls, every entry is a node of exactly the
\* bucket whose number is the hash of its key modulo capacity(), after any
\* number of inserts and rehashes, whatever the increments of the calls
\* did.
C19_EntriesInHashBucket ==
    /\ \A a \in DOMAIN heap :
           a \in BucketNodes(Mod64(hash(heap[a].value.key), m_buckets.m_size))
    /\ \A b \in 0..(m_buckets.m_size - 1) :
           \A a \in BucketNodes(b) :
               /\ a \in DOMAIN heap
               /\ Mod64(hash(heap[a].value.key), m_buckets.m_size) = b

\* A rehash has spread three entries over two or more buckets.
C19_Witness ==
    /\ IsCall /\ last.rehashes = 1 /\ Cardinality(DOMAIN heap) >= 3
    /\ \E b, c \in 0..(m_buckets.m_size - 1) :
           b # c /\ BucketNodes(b) # {} /\ BucketNodes(c) # {}

\* C20 as claimed: every get call returns, having run pushBack and rehash
\* at most once each: after a rehash the recursive get(k) finds the key and
\* returns its node without inserting or rehashing again, for every load
\* factor (0 included).
C20_RehashAtMostOnce ==
    IsCall =>
        /\ ~ub
        /\ last.rehashes <= 1 /\ last.inserted <= 1
        /\ last.rehashes = 1 => last.inserted = 1
        /\ last.ref \in DOMAIN heap
        /\ heap[last.ref].value.key = last.key

\* The map S after get(k) has appended the default entry of an absent key k
\* to its bucket, which is where get calls rehash.
AfterInsert(S, k) ==
    LET Pushed(h, p) == MapState(p.M, [S.A EXCEPT !.m_array[h + 1] = p.l])
        Into(h) == Pushed(h, LL_pushBack(S.M, S.A.m_array[h + 1],
                                         KeyVal(k, DefaultValue)))
    IN  Into(BucketIndex(S, k))

\* initBuckets(n) has left n buckets, each an empty list in a slot of the
\* allocated buffer, and no write went outside the buffer.
BucketsReady(S, n) ==
    /\ ~S.M.ub
    /\ HM_capacity(S.A) = n
    /\ n <= Len(S.A.m_array)
    /\ S.A.m_capacity <= Len(S.A.m_array)
    /\ \A b \in 1..n : S.A.m_array[b] = EmptyList

\* C21: the constructor leaves the requested number of empty buckets, all
\* inside the allocated buffer; the capacity the Array records never
\* exceeds the number of slots allocated; and in every get call that ran
\* rehash (which it does only when its increments advance), initBuckets
\* has appended twice the former number of buckets when the second loop
\* starts, each an empty list written inside the buffer, with every entry
\* in tempMap.
C21_BucketsInsideBuffer ==
    /\ last.op = "new" => BucketsReady(Now, last.cap0)
    /\ [][/\ m_buckets'.m_capacity <= Len(m_buckets'.m_array)
          /\ last'.rehashes > 0 =>
                 \A S1 \in {AfterInsert(Now, last'.key)} :
                 \A b \in {RehashBuckets(S1, "advance")} :
                     /\ BucketsReady(b.S, 2 * HM_capacity(m_buckets))
                     /\ b.S.M.heap = <<>>
                     /\ TempCount(b.tempMap) = EntryCount(Now) + 1]_vars

\* A rehash of a map of two or more buckets has doubled the bucket count
\* and filled the buffer it wrote the buckets to.
C21_Witness ==
    /\ IsCall /\ last.rehashes = 1 /\ last.cap0 >= 2
    /\ HM_capacity(m_buckets) = 2 * last.cap0
    /\ m_buckets.m_capacity = Len(m_buckets.m_array)
    /\ m_buckets.m_capacity = 2 * HM_capacity(m_buckets)

\* The nodes the map with buckets A would delete when destroyed: those of
\* the lists in all slots of its buffer.
OwnedNodes(A) == UNION {NodesOf(A.m_array[b]) : b \in 1..Len(A.m_array)}

\* C22 as claimed: once a second map was copy- or move-constructed from the
\* first, no node belongs to both maps, every bucket of a map that has not
\* been destroyed leads to live nodes only, and a get, a write through
\* operator[], an insertion or the destruction of one map leaves the
\* entries of the other as they were.
C22_NodesOwnedOnce ==
    second.made =>
        /\ ~ub
        /\ (second.alive /\ second.sourceAlive) =>
               OwnedNodes(m_buckets) \cap OwnedNodes(second.m_buckets) = {}
        /\ second.sourceAlive => MapReadable(ListMem, m_buckets)
        /\ second.alive => MapReadable(ListMem, second.m_buckets)
        /\ (/\ last.op \in {"get", "put", "destroy"}
            /\ last.otherAlive /\ last.readable) =>
               /\ MapReadable(ListMem, BucketsOf(OtherOf(last.who)))
               /\ MapEntries(ListMem, BucketsOf(OtherOf(last.who)))
                      = last.before

====
